---- MODULE Spec2Model ----
(***************************************************************************)
(* Model of src/C/pljava/type/String.c: the String type of PL/Java, its    *)
(* per-Oid descriptor cache, the Datum <-> java.lang.String coercions and  *)
(* the encoding-aware helpers they are built from.                         *)
(*                                                                         *)
(* A call of a C function is one action.  The action records, in the       *)
(* variable call, the arguments, the returned value, whether the call      *)
(* returned normally (ok) or was left by a PostgreSQL error (ereport       *)
(* longjmp), and the trace ev of the primitive operations the call made,   *)
(* in program order.  A pointer is the index of the trace event that       *)
(* produced it, so two pointers are the same reference iff they are the    *)
(* same number; 0 is the null pointer.                                     *)
(***************************************************************************)
EXTENDS Integers, Sequences, FiniteSets, TLC

VARIABLES
    dbEncoding,   \* GetDatabaseEncoding(): fixed for the life of the backend
    s_cache,      \* static HashMap s_cache: Oid -> String instance (0 = absent)
    heap,         \* the String_ instances allocated so far, by reference
    registry,     \* Type_registerPgType's table: Oid -> factory name
    first,        \* observer: the instance the first successful lookup of t gave
    call,         \* observer: the last call made, its result and its trace
    released      \* observer: the memory of the calling context was released
                  \* after the last instance was created

vars == <<dbEncoding, s_cache, heap, registry, first, call, released>>

----------------------------------------------------------------------------
(* Bounds *)

MaxLen == 2      \* longest text value / managed string, in characters
MaxOid == 2      \* type Oids 1..MaxOid have a pg_type row; Oid 0 has none

----------------------------------------------------------------------------
(* Characters and encodings *)

\* 'a' (1 byte in UTF-8), e-acute (2 bytes in UTF-8, 1 in LATIN1) and the
\* euro sign (3 bytes in UTF-8, not representable in LATIN1).
Chars == {97, 233, 8364}

Encodings == {"UTF8", "LATIN1"}

PG_UTF8 == "UTF8"

Representable(c, enc) == enc = "UTF8" \/ c < 256

EncodeChar(c, enc) ==
    IF enc = "UTF8"
    THEN IF c < 128 THEN <<c>>
         ELSE IF c < 2048 THEN <<192 + (c \div 64), 128 + (c % 64)>>
         ELSE <<224 + (c \div 4096), 128 + ((c \div 64) % 64), 128 + (c % 64)>>
    ELSE <<c % 256>>

RECURSIVE Encode(_, _)
Encode(s, enc) ==
    IF s = <<>> THEN <<>>
    ELSE EncodeChar(Head(s), enc) \o Encode(Tail(s), enc)

IsCont(b) == b >= 128 /\ b < 192

RECURSIVE Decode(_, _)
Decode(b, enc) ==
    IF b = <<>> THEN <<>>
    ELSE IF enc # "UTF8" THEN <<b[1]>> \o Decode(Tail(b), enc)
    ELSE IF b[1] < 128 THEN <<b[1]>> \o Decode(Tail(b), enc)
    ELSE IF b[1] >= 192 /\ b[1] < 224 /\ Len(b) >= 2 /\ IsCont(b[2])
         THEN <<(b[1] - 192) * 64 + (b[2] - 128)>> \o Decode(SubSeq(b, 3, Len(b)), enc)
    ELSE IF b[1] >= 224 /\ b[1] < 240 /\ Len(b) >= 3 /\ IsCont(b[2]) /\ IsCont(b[3])
         THEN <<(b[1] - 224) * 4096 + (b[2] - 128) * 64 + (b[3] - 128)>>
              \o Decode(SubSeq(b, 4, Len(b)), enc)
    ELSE <<65533>> \o Decode(Tail(b), enc)   \* U+FFFD for a malformed byte

AllRepresentable(s, enc) == \A i \in 1..Len(s) : Representable(s[i], enc)

\* The strings over a set of characters, up to MaxLen long.
StrsOver(cs) == UNION {[1..n -> cs] : n \in 0..MaxLen}

\* Text the database can hold: valid in the database encoding.
DbStrs == StrsOver({c \in Chars : Representable(c, dbEncoding)})

\* Managed strings: any characters.
JavaStrs == StrsOver(Chars)

----------------------------------------------------------------------------
(* Values and the trace of a call *)

\* One primitive operation: its name, the reference it acts on and the
\* reference it produces (0 when it produces none).  An operation on a
\* routine or on a type also carries its Oid.
Ev(e, ref, out) == [e |-> e, ref |-> ref, out |-> out, oid |-> 0]

EvOid(e, oid, ref, out) == [e |-> e, ref |-> ref, out |-> out, oid |-> oid]

NullBuf   == [ref |-> 0, bytes |-> <<>>]              \* (char*)0, (text*)0
NullObj   == [ref |-> 0, kind |-> "null", s |-> <<>>] \* jobject 0
NullDatum == [isNull |-> TRUE, v |-> <<>>]            \* Datum 0

\* What a function hands back: the trace so far, whether it returned
\* normally, and the value returned.
Ret(ev, val) == [ev |-> ev, ok |-> TRUE, ret |-> val]
Err(ev)      == [ev |-> ev, ok |-> FALSE, ret |-> NullBuf]

\* The reference the next allocating event will produce.
New(ev) == Len(ev) + 1

\* A buffer or handle the caller passes in: it was produced before the call.
ArgBuf(bytes) == [ref |-> 1, bytes |-> bytes]
ArgObj(kind, s) == [ref |-> 1, kind |-> kind, s |-> s]
ArgTrace == <<Ev("arg", 0, 1)>>

\* pg_do_encoding_conversion(src, len, from, to): returns src itself when no
\* conversion is required, a new palloc'd buffer otherwise; raises an error
\* when a character has no equivalent in the target encoding.
pg_do_encoding_conversion(ev, src, from, to) ==
    IF from = to
    THEN Ret(Append(ev, Ev("conv", src.ref, src.ref)), src)
    ELSE IF ~AllRepresentable(Decode(src.bytes, from), to)
    THEN Err(Append(ev, Ev("convError", src.ref, 0)))
    ELSE Ret(Append(ev, Ev("conv", src.ref, New(ev))),
             [ref |-> New(ev), bytes |-> Encode(Decode(src.bytes, from), to)])

pfree(ev, p) == Append(ev, Ev("pfree", p.ref, 0))

\* JNI_newStringUTF(bytes): a new local reference to a new java.lang.String.
JNI_newStringUTF(ev, utf8) ==
    Ret(Append(ev, Ev("newStringUTF", utf8.ref, New(ev))),
        [ref |-> New(ev), kind |-> "String", s |-> Decode(utf8.bytes, "UTF8")])

\* JNI_getStringUTFChars(str, 0): a runtime-owned buffer holding the UTF-8
\* bytes of the string, to be given back with JNI_releaseStringUTFChars.
JNI_getStringUTFChars(ev, jstr) ==
    Ret(Append(ev, Ev("getStringUTFChars", jstr.ref, New(ev))),
        [ref |-> New(ev), bytes |-> Encode(jstr.s, "UTF8")])

JNI_releaseStringUTFChars(ev, jstr, utf8) ==
    Append(ev, Ev("releaseStringUTFChars", utf8.ref, 0))

JNI_deleteLocalRef(ev, obj) == Append(ev, Ev("deleteLocalRef", obj.ref, 0))

----------------------------------------------------------------------------
(* The transcoding helpers *)

\* junk: the bytes that follow the varlena's data in memory up to the next
\* zero byte; JNI_newStringUTF reads a zero-terminated string, and VARDATA(t)
\* is not terminated when the conversion returns its input.
String_createJavaString(ev, t, junk) ==
    IF t.ref = 0 THEN Ret(ev, NullObj)
    ELSE IF Len(t.bytes) = 0 THEN Ret(ev, NullObj)
    ELSE LET c == pg_do_encoding_conversion(ev, t, dbEncoding, PG_UTF8) IN
         IF ~c.ok THEN Err(c.ev)
         ELSE LET utf8 == c.ret
                  read == IF utf8.ref = t.ref
                          THEN [utf8 EXCEPT !.bytes = @ \o junk] ELSE utf8
                  r    == JNI_newStringUTF(c.ev, read)
              IN  Ret(IF utf8.ref # t.ref THEN pfree(r.ev, utf8) ELSE r.ev, r.ret)

String_createJavaStringFromNTS(ev, cp) ==
    IF cp.ref = 0 THEN Ret(ev, NullObj)
    ELSE LET c == pg_do_encoding_conversion(ev, cp, dbEncoding, PG_UTF8) IN
         IF ~c.ok THEN Err(c.ev)
         ELSE LET utf8 == c.ret
                  r    == JNI_newStringUTF(c.ev, utf8)
              IN  Ret(IF utf8.ref # cp.ref THEN pfree(r.ev, utf8) ELSE r.ev, r.ret)

\* Mutant: the converted buffer is freed even when it is the input.
String_createText_FreeAlways(ev, javaString) ==
    IF javaString.ref = 0 THEN Ret(ev, NullBuf)
    ELSE LET g == JNI_getStringUTFChars(ev, javaString)
             utf8 == g.ret
             c == pg_do_encoding_conversion(g.ev, utf8, PG_UTF8, dbEncoding)
         IN  IF ~c.ok THEN Err(c.ev)
             ELSE LET denc == c.ret
                      ev1  == Append(c.ev, Ev("palloc", 0, New(c.ev)))
                      result == [ref |-> New(c.ev), bytes |-> denc.bytes]
                      ev2  == pfree(ev1, denc)
                  IN  Ret(JNI_releaseStringUTFChars(ev2, javaString, utf8), result)

String_createText(ev, javaString) ==
    IF javaString.ref = 0 THEN Ret(ev, NullBuf)
    ELSE LET g == JNI_getStringUTFChars(ev, javaString)
             utf8 == g.ret
             c == pg_do_encoding_conversion(g.ev, utf8, PG_UTF8, dbEncoding)
         IN  IF ~c.ok THEN Err(c.ev)
             ELSE LET denc == c.ret
                      ev1  == Append(c.ev, Ev("palloc", 0, New(c.ev)))
                      result == [ref |-> New(c.ev), bytes |-> denc.bytes]
                      ev2  == IF denc.ref # utf8.ref THEN pfree(ev1, denc) ELSE ev1
                  IN  Ret(JNI_releaseStringUTFChars(ev2, javaString, utf8), result)

\* Mutant: the UTF-8 bytes are copied without being converted.
String_createNTS_NoConversion(ev, javaString) ==
    IF javaString.ref = 0 THEN Ret(ev, NullBuf)
    ELSE LET g == JNI_getStringUTFChars(ev, javaString)
             utf8 == g.ret
             ev1 == Append(g.ev, Ev("pstrdup", utf8.ref, New(g.ev)))
             result == [ref |-> New(g.ev), bytes |-> utf8.bytes]
         IN  Ret(JNI_releaseStringUTFChars(ev1, javaString, utf8), result)

\* Mutant: no copy is made when the conversion returns its input.
String_createNTS_NoCopy(ev, javaString) ==
    IF javaString.ref = 0 THEN Ret(ev, NullBuf)
    ELSE LET g == JNI_getStringUTFChars(ev, javaString)
             utf8 == g.ret
             c == pg_do_encoding_conversion(g.ev, utf8, PG_UTF8, dbEncoding)
         IN  IF ~c.ok THEN Err(c.ev)
             ELSE Ret(JNI_releaseStringUTFChars(c.ev, javaString, utf8), c.ret)

String_createNTS(ev, javaString) ==
    IF javaString.ref = 0 THEN Ret(ev, NullBuf)
    ELSE LET g == JNI_getStringUTFChars(ev, javaString)
             utf8 == g.ret
             c == pg_do_encoding_conversion(g.ev, utf8, PG_UTF8, dbEncoding)
         IN  IF ~c.ok THEN Err(c.ev)
             ELSE LET dup == c.ret.ref = utf8.ref
                      ev1 == IF dup
                             THEN Append(c.ev, Ev("pstrdup", utf8.ref, New(c.ev)))
                             ELSE c.ev
                      result == IF dup
                                THEN [ref |-> New(c.ev), bytes |-> utf8.bytes]
                                ELSE c.ret
                  IN  Ret(JNI_releaseStringUTFChars(ev1, javaString, utf8), result)

\* buf: the contents of the StringInfoData before the call; the value
\* returned is its contents after it.
String_appendJavaString(ev, buf, javaString) ==
    IF javaString.ref = 0 THEN Ret(ev, buf)
    ELSE LET g == JNI_getStringUTFChars(ev, javaString)
             utf8 == g.ret
             c == pg_do_encoding_conversion(g.ev, utf8, PG_UTF8, dbEncoding)
         IN  IF ~c.ok THEN Err(c.ev)
             ELSE LET dbEnc == c.ret
                      ev1 == Append(c.ev, Ev("appendStringInfoString", dbEnc.ref, 0))
                      ev2 == IF dbEnc.ref # utf8.ref THEN pfree(ev1, dbEnc) ELSE ev1
                  IN  Ret(JNI_releaseStringUTFChars(ev2, javaString, utf8),
                          [buf EXCEPT !.bytes = @ \o dbEnc.bytes])

----------------------------------------------------------------------------
(* The managed runtime and the database's conversion routines *)

\* Managed objects are of three kinds: "String", a java.lang.String;
\* "Object", an object whose toString() returns the string s; and "Thrower",
\* an object whose toString() throws.

\* JNI_callObjectMethod(obj, s_Object_toString): a new local reference to the
\* string toString() returns, or no reference and a pending exception.
JNI_callObjectMethod(ev, obj) ==
    IF obj.kind = "Thrower"
    THEN Ret(Append(ev, Ev("toStringThrew", obj.ref, 0)), NullObj)
    ELSE Ret(Append(ev, Ev("toString", obj.ref, New(ev))),
             [ref |-> New(ev), kind |-> "String", s |-> obj.s])

\* JNI_exceptionCheck(): an exception is pending; nothing in this file
\* clears one.
JNI_exceptionCheck(ev) == \E i \in 1..Len(ev) : ev[i].e = "toStringThrew"

\* What the output routine does with Datum 0, which is no value of the
\* type: it fails, or it renders whatever it finds.
UBOutcomes == {[crash |-> TRUE,  bytes |-> <<>>],
               [crash |-> FALSE, bytes |-> <<>>],
               [crash |-> FALSE, bytes |-> <<97>>]}

Faults == {"none", "routine"}

\* FunctionCall3(&self->textOutput, arg, elementType, -1): the type's output
\* routine renders the value as a palloc'd string in the database encoding,
\* or raises an error (fault).
FunctionCall3_textOutput(ev, flinfo, arg, elementType, fault, ub) ==
    IF fault = "routine" \/ (arg.isNull /\ ub.crash)
    THEN Err(Append(ev, EvOid("textOutputError", flinfo, 0, 0)))
    ELSE Ret(Append(ev, EvOid("textOutput", flinfo, 0, New(ev))),
             [ref |-> New(ev),
              bytes |-> IF arg.isNull THEN ub.bytes ELSE Encode(arg.v, dbEncoding)])

\* FunctionCall3(&self->textInput, tmp, elementType, -1): the type's input
\* routine parses a string in the database encoding, or raises an error.
FunctionCall3_textInput(ev, flinfo, tmp, elementType, fault) ==
    IF fault = "routine"
    THEN Err(Append(ev, EvOid("textInputError", flinfo, tmp.ref, 0)))
    ELSE Ret(Append(ev, EvOid("textInput", flinfo, tmp.ref, 0)),
             [isNull |-> FALSE, v |-> Decode(tmp.bytes, dbEncoding)])

----------------------------------------------------------------------------
(* The coercions of the String kind *)

\* Mutant: only a type of the same kind can be replaced.
_String_canReplaceType_SameClass(self, type) == type.typeClass = self.typeClass

_String_canReplaceType(self, type) == TRUE

_String_coerceDatum(ev, self, arg, fault, ub) ==
    LET o == FunctionCall3_textOutput(ev, self.textOutput, arg,
                                      self.elementType, fault, ub)
    IN  IF ~o.ok THEN Err(o.ev)
        ELSE LET tmp == o.ret
                 r   == String_createJavaStringFromNTS(o.ev, tmp)
             IN  IF ~r.ok THEN Err(r.ev)
                 ELSE Ret(pfree(r.ev, tmp), r.ret)

\* Mutant: the null handle is not tested for.
_String_coerceObject_NoNullCheck(ev, self, jstr, fault) ==
    LET m == JNI_callObjectMethod(ev, jstr) IN
    IF JNI_exceptionCheck(m.ev) THEN Ret(m.ev, NullDatum)
    ELSE LET n == String_createNTS(m.ev, m.ret) IN
         IF ~n.ok THEN Err(n.ev)
         ELSE LET tmp == n.ret
                  ev1 == JNI_deleteLocalRef(n.ev, m.ret)
                  f   == FunctionCall3_textInput(ev1, self.textInput, tmp,
                                                 self.elementType, fault)
              IN  IF ~f.ok THEN Err(f.ev)
                  ELSE Ret(pfree(f.ev, tmp), f.ret)

\* Mutant: the reference toString returned is not deleted.
_String_coerceObject_NoDeleteLocalRef(ev, self, jstr, fault) ==
    IF jstr.ref = 0 THEN Ret(ev, NullDatum)
    ELSE LET m == JNI_callObjectMethod(ev, jstr) IN
         IF JNI_exceptionCheck(m.ev) THEN Ret(m.ev, NullDatum)
         ELSE LET n == String_createNTS(m.ev, m.ret) IN
              IF ~n.ok THEN Err(n.ev)
              ELSE LET tmp == n.ret
                       f   == FunctionCall3_textInput(n.ev, self.textInput, tmp,
                                                      self.elementType, fault)
                   IN  IF ~f.ok THEN Err(f.ev)
                       ELSE Ret(pfree(f.ev, tmp), f.ret)

_String_coerceObject(ev, self, jstr, fault) ==
    IF jstr.ref = 0 THEN Ret(ev, NullDatum)
    ELSE LET m == JNI_callObjectMethod(ev, jstr) IN
         IF JNI_exceptionCheck(m.ev) THEN Ret(m.ev, NullDatum)
         ELSE LET n == String_createNTS(m.ev, m.ret) IN
              IF ~n.ok THEN Err(n.ev)
              ELSE LET tmp == n.ret
                       ev1 == JNI_deleteLocalRef(n.ev, m.ret)
                       f   == FunctionCall3_textInput(ev1, self.textInput, tmp,
                                                      self.elementType, fault)
                   IN  IF ~f.ok THEN Err(f.ev)
                       ELSE Ret(pfree(f.ev, tmp), f.ret)

----------------------------------------------------------------------------
(* The catalog, the descriptors and the cache *)

Oids == 0..MaxOid
ValidOids == 1..MaxOid

\* The pg_type row of a type: its output and input routines and its
\* element type.
PgTypeRow(typeId) ==
    [typoutput |-> 2 * typeId + 1, typinput |-> 2 * typeId, typelem |-> typeId - 1]

\* The rows a caller of String_fromPgType may hold.
PgTypeRows == {PgTypeRow(t) : t \in ValidOids}

s_StringClass == "type.String"

HashMap_getByOid(map, oid) == map[oid]

HashMap_putByOid(map, oid, value) == [map EXCEPT ![oid] = value]

\* Memory contexts: the long-lived one, the one of the call in progress,
\* and "freed" for memory whose context has been reset.
TopMemoryContext == "TopMemoryContext"
CurrentMemoryContext == "CurrentMemoryContext"

\* TypeClass_allocInstance(cls, typeId): a new instance of the class, in
\* the long-lived context of its owner.
TypeClass_allocInstance(cls, typeId) ==
    [typeClass |-> cls, typeId |-> typeId, ctx |-> TopMemoryContext]

GetMemoryChunkContext(self) == self.ctx

\* fmgr_info_cxt(functionId, finfo, mcxt): the routine's call information,
\* allocated in mcxt.
fmgr_info_cxt(functionId, mcxt) == [fn_oid |-> functionId, fn_mcxt |-> mcxt]

\* Mutant: the routines' call information is allocated in the context of
\* the call in progress (fmgr_info instead of fmgr_info_cxt).
String_create_CurrentContext(cls, typeId, pgType) ==
    LET self == TypeClass_allocInstance(cls, typeId)
        out  == fmgr_info_cxt(pgType.typoutput, CurrentMemoryContext)
        in   == fmgr_info_cxt(pgType.typinput, CurrentMemoryContext)
    IN  [typeClass     |-> self.typeClass,
         typeId        |-> self.typeId,
         ctx           |-> self.ctx,
         textOutput    |-> out.fn_oid,
         textOutputCtx |-> out.fn_mcxt,
         textInput     |-> in.fn_oid,
         textInputCtx  |-> in.fn_mcxt,
         elementType   |-> pgType.typelem]

\* The new instance and its payload: the two routines, with the context
\* their call information lives in, and the element type.
String_create(cls, typeId, pgType) ==
    LET self == TypeClass_allocInstance(cls, typeId)
        ctx  == GetMemoryChunkContext(self)
        out  == fmgr_info_cxt(pgType.typoutput, ctx)
        in   == fmgr_info_cxt(pgType.typinput, ctx)
    IN  [typeClass     |-> self.typeClass,
         typeId        |-> self.typeId,
         ctx           |-> self.ctx,
         textOutput    |-> out.fn_oid,
         textOutputCtx |-> out.fn_mcxt,
         textInput     |-> in.fn_oid,
         textInputCtx  |-> in.fn_mcxt,
         elementType   |-> pgType.typelem]

\* The observers: the call made; whether the calling context's memory was
\* released after the last instance was created; and, for a successful
\* lookup, the first instance ever returned for the type.
Observe(op, arg, r) ==
    /\ call' = [op |-> op, arg |-> arg, ok |-> r.ok, ret |-> r.ret, ev |-> r.ev]
    /\ released' =
           IF op = "MemoryContextReset" THEN TRUE
           ELSE released
                /\ \A i \in 1..Len(r.ev) : r.ev[i].e # "TypeClass_allocInstance"

ObserveLookup(typeId, ok, inst) ==
    first' = IF ok /\ first[typeId] = 0 THEN [first EXCEPT ![typeId] = inst]
             ELSE first

\* Mutant: on a hit the payload is rebuilt from the row passed in.
String_fromPgType_Refresh(typeId, pgType) ==
    LET self == HashMap_getByOid(s_cache, typeId)
        ev0  == <<EvOid("HashMap_getByOid", typeId, 0, self)>>
    IN  IF self = 0
        THEN LET new == Len(heap) + 1
                 ev1 == ev0 \o <<EvOid("TypeClass_allocInstance", typeId, 0, new),
                                 EvOid("HashMap_putByOid", typeId, new, 0)>>
             IN  /\ heap' = Append(heap, String_create(s_StringClass, typeId, pgType))
                 /\ s_cache' = HashMap_putByOid(s_cache, typeId, new)
                 /\ Observe("String_fromPgType",
                            [typeId |-> typeId, pgType |-> pgType], Ret(ev1, new))
                 /\ ObserveLookup(typeId, TRUE, new)
                 /\ UNCHANGED <<dbEncoding, registry>>
        ELSE /\ heap' = [heap EXCEPT ![self] = String_create(s_StringClass, typeId, pgType)]
             /\ Observe("String_fromPgType",
                        [typeId |-> typeId, pgType |-> pgType], Ret(ev0, self))
             /\ ObserveLookup(typeId, TRUE, self)
             /\ UNCHANGED <<dbEncoding, s_cache, registry>>

String_fromPgType(typeId, pgType) ==
    LET self == HashMap_getByOid(s_cache, typeId)
        ev0  == <<EvOid("HashMap_getByOid", typeId, 0, self)>>
    IN  IF self = 0
        THEN LET new == Len(heap) + 1
                 ev1 == ev0 \o <<EvOid("TypeClass_allocInstance", typeId, 0, new),
                                 EvOid("HashMap_putByOid", typeId, new, 0)>>
             IN  /\ heap' = Append(heap, String_create(s_StringClass, typeId, pgType))
                 /\ s_cache' = HashMap_putByOid(s_cache, typeId, new)
                 /\ Observe("String_fromPgType",
                            [typeId |-> typeId, pgType |-> pgType], Ret(ev1, new))
                 /\ ObserveLookup(typeId, TRUE, new)
                 /\ UNCHANGED <<dbEncoding, registry>>
        ELSE /\ Observe("String_fromPgType",
                        [typeId |-> typeId, pgType |-> pgType], Ret(ev0, self))
             /\ ObserveLookup(typeId, TRUE, self)
             /\ UNCHANGED <<dbEncoding, s_cache, heap, registry>>

\* Mutant: the cache is not consulted; every call builds a new instance.
StringClass_obtain_NoCacheCheck(self, typeId) ==
    IF typeId \notin ValidOids
    THEN /\ Observe("String_obtain", [typeId |-> typeId],
                    [ev |-> <<EvOid("getValidTupleError", typeId, 0, 0)>>,
                     ok |-> FALSE, ret |-> 0])
         /\ ObserveLookup(typeId, FALSE, 0)
         /\ UNCHANGED <<dbEncoding, s_cache, heap, registry>>
    ELSE LET new == Len(heap) + 1
             ev1 == <<EvOid("getValidTuple", typeId, 0, 1),
                      EvOid("TypeClass_allocInstance", typeId, 0, new),
                      EvOid("ReleaseSysCache", typeId, 1, 0),
                      EvOid("HashMap_putByOid", typeId, new, 0)>>
         IN  /\ heap' = Append(heap, String_create(self, typeId, PgTypeRow(typeId)))
             /\ s_cache' = HashMap_putByOid(s_cache, typeId, new)
             /\ Observe("String_obtain", [typeId |-> typeId], Ret(ev1, new))
             /\ ObserveLookup(typeId, TRUE, new)
             /\ UNCHANGED <<dbEncoding, registry>>

\* Mutant: the instance is allocated and put in the cache before the
\* catalog is consulted, so a failed lookup leaves an entry behind.
StringClass_obtain_PutBeforeLookup(self, typeId) ==
    LET infant == HashMap_getByOid(s_cache, typeId)
        ev0    == <<EvOid("HashMap_getByOid", typeId, 0, infant)>>
        new    == Len(heap) + 1
        ev1    == ev0 \o <<EvOid("TypeClass_allocInstance", typeId, 0, new),
                           EvOid("HashMap_putByOid", typeId, new, 0)>>
    IN  IF infant = 0
        THEN /\ heap' = Append(heap, String_create(self, typeId, PgTypeRow(typeId)))
             /\ s_cache' = HashMap_putByOid(s_cache, typeId, new)
             /\ UNCHANGED <<dbEncoding, registry>>
             /\ IF typeId \notin ValidOids
                THEN /\ Observe("String_obtain", [typeId |-> typeId],
                                [ev |-> Append(ev1, EvOid("getValidTupleError", typeId, 0, 0)),
                                 ok |-> FALSE, ret |-> 0])
                     /\ ObserveLookup(typeId, FALSE, 0)
                ELSE /\ Observe("String_obtain", [typeId |-> typeId],
                                Ret(ev1 \o <<EvOid("getValidTuple", typeId, 0, 1),
                                             EvOid("ReleaseSysCache", typeId, 1, 0)>>, new))
                     /\ ObserveLookup(typeId, TRUE, new)
        ELSE /\ Observe("String_obtain", [typeId |-> typeId], Ret(ev0, infant))
             /\ ObserveLookup(typeId, TRUE, infant)
             /\ UNCHANGED <<dbEncoding, s_cache, heap, registry>>

\* Mutant: the catalog tuple is not released.
StringClass_obtain_NoRelease(self, typeId) ==
    LET infant == HashMap_getByOid(s_cache, typeId)
        ev0    == <<EvOid("HashMap_getByOid", typeId, 0, infant)>>
    IN  IF infant = 0
        THEN IF typeId \notin ValidOids
             THEN /\ Observe("String_obtain", [typeId |-> typeId],
                             [ev |-> Append(ev0, EvOid("getValidTupleError", typeId, 0, 0)),
                              ok |-> FALSE, ret |-> 0])
                  /\ ObserveLookup(typeId, FALSE, 0)
                  /\ UNCHANGED <<dbEncoding, s_cache, heap, registry>>
             ELSE LET new == Len(heap) + 1
                      ev1 == ev0 \o <<EvOid("getValidTuple", typeId, 0, 1),
                                      EvOid("TypeClass_allocInstance", typeId, 0, new),
                                      EvOid("HashMap_putByOid", typeId, new, 0)>>
                  IN  /\ heap' = Append(heap, String_create(self, typeId, PgTypeRow(typeId)))
                      /\ s_cache' = HashMap_putByOid(s_cache, typeId, new)
                      /\ Observe("String_obtain", [typeId |-> typeId], Ret(ev1, new))
                      /\ ObserveLookup(typeId, TRUE, new)
                      /\ UNCHANGED <<dbEncoding, registry>>
        ELSE /\ Observe("String_obtain", [typeId |-> typeId], Ret(ev0, infant))
             /\ ObserveLookup(typeId, TRUE, infant)
             /\ UNCHANGED <<dbEncoding, s_cache, heap, registry>>

\* PgObject_getValidTuple(TYPEOID, typeId, "type") raises an error when the
\* Oid has no pg_type row.
StringClass_obtain(self, typeId) ==
    LET infant == HashMap_getByOid(s_cache, typeId)
        ev0    == <<EvOid("HashMap_getByOid", typeId, 0, infant)>>
    IN  IF infant = 0
        THEN IF typeId \notin ValidOids
             THEN /\ Observe("String_obtain", [typeId |-> typeId],
                             [ev |-> Append(ev0, EvOid("getValidTupleError", typeId, 0, 0)),
                              ok |-> FALSE, ret |-> 0])
                  /\ ObserveLookup(typeId, FALSE, 0)
                  /\ UNCHANGED <<dbEncoding, s_cache, heap, registry>>
             ELSE LET new == Len(heap) + 1
                      \* the tuple held is reference 1 of the call
                      ev1 == ev0 \o <<EvOid("getValidTuple", typeId, 0, 1),
                                      EvOid("TypeClass_allocInstance", typeId, 0, new),
                                      EvOid("ReleaseSysCache", typeId, 1, 0),
                                      EvOid("HashMap_putByOid", typeId, new, 0)>>
                  IN  /\ heap' = Append(heap, String_create(self, typeId, PgTypeRow(typeId)))
                      /\ s_cache' = HashMap_putByOid(s_cache, typeId, new)
                      /\ Observe("String_obtain", [typeId |-> typeId], Ret(ev1, new))
                      /\ ObserveLookup(typeId, TRUE, new)
                      /\ UNCHANGED <<dbEncoding, registry>>
        ELSE /\ Observe("String_obtain", [typeId |-> typeId], Ret(ev0, infant))
             /\ ObserveLookup(typeId, TRUE, infant)
             /\ UNCHANGED <<dbEncoding, s_cache, heap, registry>>

String_obtain(typeId) == StringClass_obtain(s_StringClass, typeId)

\* Type_registerPgType(typeId, factory): overwrites the factory of typeId.
Factories == {"String_obtain", "other"}

Type_registerPgType(typeId, factory) ==
    /\ registry' = [registry EXCEPT ![typeId] = factory]
    /\ Observe("Type_registerPgType", [typeId |-> typeId, factory |-> factory],
               Ret(<<>>, 0))
    /\ UNCHANGED <<dbEncoding, s_cache, heap, first>>

\* The kinds a candidate type may be of.
TypeClasses == {"type.String", "type.Integer", "type.Any"}

CanReplaceType(self, cls, typeId) ==
    /\ self \in 1..Len(heap)
    /\ Observe("canReplaceType",
               [self |-> self, type |-> [typeClass |-> cls, typeId |-> typeId]],
               Ret(<<>>, _String_canReplaceType(heap[self],
                                                [typeClass |-> cls, typeId |-> typeId])))
    /\ UNCHANGED <<dbEncoding, s_cache, heap, registry, first>>

\* String_initialize: an empty cache, and String_obtain registered for the
\* text-like types (Oid 1 stands for them).
Init ==
    /\ dbEncoding \in Encodings
    /\ s_cache = [t \in Oids |-> 0]
    /\ heap = <<>>
    /\ registry = [t \in Oids |-> IF t = 1 THEN "String_obtain" ELSE "none"]
    /\ first = [t \in Oids |-> 0]
    /\ call = [op |-> "String_initialize", arg |-> <<>>, ok |-> TRUE, ret |-> 0,
               ev |-> <<>>]
    /\ released = FALSE

Next ==
    \/ \E t \in Oids : String_obtain(t)
    \/ \E t \in ValidOids : \E row \in PgTypeRows : String_fromPgType(t, row)
    \/ \E t \in ValidOids : \E f \in Factories : Type_registerPgType(t, f)
    \/ \E self \in ValidOids : \E cls \in TypeClasses : \E t \in ValidOids :
           CanReplaceType(self, cls, t)

Spec == Init /\ [][Next]_vars

\* The host releases the memory of the calling context between calls
\* (MemoryContextReset): whatever was allocated in it is gone.
ReleasedIn(ctx) == IF ctx = CurrentMemoryContext THEN "freed" ELSE ctx

MemoryContextReset ==
    /\ heap' = IF heap = <<>> THEN heap
               ELSE [i \in 1..Len(heap) |->
                        [heap[i] EXCEPT !.ctx = ReleasedIn(@),
                                        !.textOutputCtx = ReleasedIn(@),
                                        !.textInputCtx = ReleasedIn(@)]]
    /\ Observe("MemoryContextReset", <<>>, Ret(<<>>, 0))
    /\ UNCHANGED <<dbEncoding, s_cache, registry, first>>

\* Lookups interleaved with releases of the calling context's memory.
NextMemory ==
    \/ \E t \in Oids : String_obtain(t)
    \/ \E t \in ValidOids : \E row \in PgTypeRows : String_fromPgType(t, row)
    \/ MemoryContextReset

SpecMemory == Init /\ [][NextMemory]_vars

----------------------------------------------------------------------------
(* Calls of the coercions and of the helpers *)

\* The native values of a String-backed type: Datum 0, or a text the
\* database holds.
Datums == {NullDatum} \cup {[isNull |-> FALSE, v |-> v] : v \in DbStrs}

\* The handles a caller passes: jobject 0, or a reference to an object.
Objects ==
    {NullObj} \cup {ArgObj(k, s) : k \in {"String", "Object"}, s \in JavaStrs}
              \cup {ArgObj("Thrower", <<>>)}

JavaStrings == {NullObj} \cup {ArgObj("String", s) : s \in JavaStrs}

\* Zero-terminated strings and varlenas in the database encoding.
DbBuffers == {NullBuf} \cup {ArgBuf(Encode(v, dbEncoding)) : v \in DbStrs}

Junk == {<<>>, <<97>>}

StringInfos == {[bytes |-> <<>>], [bytes |-> <<120>>]}

Frame == UNCHANGED <<dbEncoding, s_cache, heap, registry, first>>

CoerceDatum(self, arg, fault, ub) ==
    /\ self \in 1..Len(heap)
    /\ arg.isNull \/ ub = [crash |-> TRUE, bytes |-> <<>>]
    /\ Observe("coerceDatum", [self |-> self, arg |-> arg, fault |-> fault],
               _String_coerceDatum(<<>>, heap[self], arg, fault, ub))
    /\ Frame

CoerceObject(self, jstr, fault) ==
    /\ self \in 1..Len(heap)
    /\ Observe("coerceObject", [self |-> self, jstr |-> jstr, fault |-> fault],
               _String_coerceObject(ArgTrace, heap[self], jstr, fault))
    /\ Frame

CreateJavaString(t, junk) ==
    /\ Observe("String_createJavaString", [t |-> t, junk |-> junk],
               String_createJavaString(ArgTrace, t, junk))
    /\ Frame

CreateJavaStringFromNTS(cp) ==
    /\ Observe("String_createJavaStringFromNTS", [cp |-> cp],
               String_createJavaStringFromNTS(ArgTrace, cp))
    /\ Frame

CreateText(javaString) ==
    /\ Observe("String_createText", [javaString |-> javaString],
               String_createText(ArgTrace, javaString))
    /\ Frame

CreateNTS(javaString) ==
    /\ Observe("String_createNTS", [javaString |-> javaString],
               String_createNTS(ArgTrace, javaString))
    /\ Frame

AppendJavaString(buf, javaString) ==
    /\ Observe("String_appendJavaString", [buf |-> buf, javaString |-> javaString],
               String_appendJavaString(ArgTrace, buf, javaString))
    /\ Frame

\* A caller's round trip: coerceObject applied to what coerceDatum returned.
RoundTrip(self, arg) ==
    /\ self \in 1..Len(heap)
    /\ ~arg.isNull
    /\ LET d == _String_coerceDatum(<<>>, heap[self], arg, "none",
                                    [crash |-> TRUE, bytes |-> <<>>])
       IN  Observe("roundTrip", [self |-> self, arg |-> arg, fault |-> "none"],
                   IF d.ok THEN _String_coerceObject(d.ev, heap[self], d.ret, "none")
                   ELSE d)
    /\ Frame

\* The state after String_initialize and one String_obtain for each type
\* of the catalog, in Oid order.
InitCoerce ==
    /\ dbEncoding \in Encodings
    /\ heap = [t \in ValidOids |-> String_create(s_StringClass, t, PgTypeRow(t))]
    /\ s_cache = [t \in Oids |-> t]
    /\ registry = [t \in Oids |-> IF t = 1 THEN "String_obtain" ELSE "none"]
    /\ first = [t \in Oids |-> t]
    /\ call = [op |-> "String_initialize", arg |-> <<>>, ok |-> TRUE, ret |-> 0,
               ev |-> <<>>]
    /\ released = FALSE

NextCoerce ==
    \/ \E self \in ValidOids : \E arg \in Datums : \E fault \in Faults :
           \E ub \in UBOutcomes : CoerceDatum(self, arg, fault, ub)
    \/ \E self \in ValidOids : \E jstr \in Objects : \E fault \in Faults :
           CoerceObject(self, jstr, fault)
    \/ \E t \in DbBuffers : \E junk \in Junk : CreateJavaString(t, junk)
    \/ \E cp \in DbBuffers : CreateJavaStringFromNTS(cp)
    \/ \E js \in JavaStrings : CreateText(js)
    \/ \E js \in JavaStrings : CreateNTS(js)
    \/ \E buf \in StringInfos : \E js \in JavaStrings : AppendJavaString(buf, js)
    \/ \E self \in ValidOids : \E arg \in Datums : RoundTrip(self, arg)

SpecCoerce == InitCoerce /\ [][NextCoerce]_vars

----------------------------------------------------------------------------
(* Reading a trace *)

Count(ev, e) == Cardinality({i \in 1..Len(ev) : ev[i].e = e})

CountRef(ev, e, ref) ==
    Cardinality({i \in 1..Len(ev) : ev[i].e = e /\ ev[i].ref = ref})

Lookups == {"String_obtain", "String_fromPgType"}

Transcoders == {"String_createJavaString", "String_createJavaStringFromNTS",
                "String_createText", "String_appendJavaString"}

ByteAccessors == {"coerceObject", "String_createNTS", "String_createText",
                  "String_appendJavaString"}

\* What the type's output routine renders for a native value.
Rendered(self, d) ==
    FunctionCall3_textOutput(<<>>, heap[self].textOutput, d,
                             heap[self].elementType, "none",
                             [crash |-> TRUE, bytes |-> <<>>]).ret.bytes

----------------------------------------------------------------------------
(* The claims *)

\* C1: every successful lookup of a type returns the instance its first
\* successful lookup returned: the cache entry of a type is created at most
\* once and is never replaced or removed, whatever is registered meanwhile.
C1_CacheIdentity ==
    /\ \A t \in Oids : first[t] # 0 => s_cache[t] = first[t]
    /\ \A i, j \in 1..Len(heap) : heap[i].typeId = heap[j].typeId => i = j
    /\ (call.op \in Lookups /\ call.ok) => call.ret = first[call.arg.typeId]

\* A cache hit through String_fromPgType, with a row other than the one the
\* instance was built from, after another factory was registered for the type.
C1_Witness ==
    /\ call.op = "String_fromPgType"
    /\ Len(call.ev) = 1
    /\ registry[call.arg.typeId] = "other"
    /\ call.arg.pgType.typoutput # heap[call.ret].textOutput
    /\ call.ret = first[call.arg.typeId]

\* C2: coerceObject of the null handle returns Datum 0 and calls neither
\* toString, nor the encoding conversion, nor the input routine.
C2_NullObjectShortCircuit ==
    (call.op = "coerceObject" /\ call.arg.jstr.ref = 0) =>
        /\ call.ok
        /\ call.ret = NullDatum
        /\ \A i \in 1..Len(call.ev) :
               call.ev[i].e \notin {"toString", "toStringThrew", "getStringUTFChars",
                                    "conv", "convError", "textInput", "textInputError"}

C2_Witness ==
    /\ call.op = "coerceObject"
    /\ call.arg.jstr.ref = 0
    /\ call.ret = NullDatum

\* C3: when toString raises, coerceObject calls neither the encoding
\* conversion nor the input routine, and what it hands back differs from
\* what it hands back for a successful coercion of the null handle (a normal
\* return of Datum 0).
C3_ToStringFailureReported ==
    (call.op = "coerceObject" /\ Count(call.ev, "toStringThrew") > 0) =>
        /\ Count(call.ev, "conv") = 0
        /\ Count(call.ev, "convError") = 0
        /\ Count(call.ev, "textInput") = 0
        /\ <<call.ok, call.ret>> # <<TRUE, NullDatum>>

\* C4: in a transcoding helper the buffer the conversion returns is freed
\* iff it is not the input buffer, and no buffer is freed twice.
C4_AliasSafety ==
    call.op \in Transcoders =>
        /\ \A i \in 1..Len(call.ev) :
               call.ev[i].e = "conv" =>
                   (CountRef(call.ev, "pfree", call.ev[i].out) = 1
                        <=> call.ev[i].out # call.ev[i].ref)
        /\ \A i \in 1..Len(call.ev) :
               CountRef(call.ev, "pfree", call.ev[i].ref) <= 1

\* The conversion returned its input, and the helper returned.
C4_Witness ==
    /\ call.op = "String_createText"
    /\ call.ok
    /\ \E i \in 1..Len(call.ev) :
           call.ev[i].e = "conv" /\ call.ev[i].out = call.ev[i].ref
    /\ Count(call.ev, "pfree") = 0

\* C5: coerceDatum of a value whose text has length zero returns the null
\* handle.
C5_ZeroLengthGivesNoObject ==
    (call.op = "coerceDatum" /\ call.ok /\ ~call.arg.arg.isNull
         /\ call.arg.arg.v = <<>>) =>
        call.ret.ref = 0

\* C6: for a non-empty text v, coerceObject(coerceDatum(v)) is a native value
\* that the output routine renders as the bytes it renders v as.
C6_RoundTrip ==
    (call.op = "roundTrip" /\ call.arg.arg.v # <<>>) =>
        /\ call.ok
        /\ ~call.ret.isNull
        /\ Rendered(call.arg.self, call.ret) = Rendered(call.arg.self, call.arg.arg)

\* A text with a multi-byte character, in a database whose encoding is not
\* the managed one.
C6_Witness ==
    /\ call.op = "roundTrip"
    /\ dbEncoding = "LATIN1"
    /\ call.arg.arg.v = <<97, 233>>
    /\ call.ok
    /\ Count(call.ev, "textInput") = 1
    /\ Rendered(call.arg.self, call.ret) = <<97, 233>>

\* C7: a String_obtain that fails in the catalog lookup creates no instance
\* and leaves the cache as it was, with no entry for the type.
C7_FailedLookupLeavesCache ==
    [][(call'.op = "String_obtain" /\ ~call'.ok) =>
           /\ s_cache' = s_cache
           /\ heap' = heap
           /\ s_cache'[call'.arg.typeId] = 0
           /\ Count(call'.ev, "TypeClass_allocInstance") = 0
           /\ Count(call'.ev, "HashMap_putByOid") = 0]_vars

\* A failed lookup, made when the cache already held an entry.
C7_Witness ==
    /\ call.op = "String_obtain"
    /\ ~call.ok
    /\ Count(call.ev, "getValidTupleError") = 1
    /\ Len(heap) > 0
    /\ s_cache[call.arg.typeId] = 0

\* C8: coerceDatum of Datum 0 returns the null handle and does not call the
\* output routine.
C8_NullDatumShortCircuit ==
    (call.op = "coerceDatum" /\ call.arg.arg.isNull) =>
        /\ call.ok
        /\ call.ret.ref = 0
        /\ Count(call.ev, "textOutput") = 0
        /\ Count(call.ev, "textOutputError") = 0

\* C9: canReplaceType of the String kind is true of every descriptor and
\* every candidate type.
C9_CanReplaceAnyType ==
    call.op = "canReplaceType" => call.ret = TRUE

\* Asked about a candidate of another kind and another type.
C9_Witness ==
    /\ call.op = "canReplaceType"
    /\ call.arg.type.typeClass # heap[call.arg.self].typeClass
    /\ call.arg.type.typeId # heap[call.arg.self].typeId
    /\ call.ret = TRUE

\* C10: every buffer obtained with JNI_getStringUTFChars is given back with
\* JNI_releaseStringUTFChars exactly once before the function is left,
\* however it is left.
C10_ByteAccessReleased ==
    call.op \in ByteAccessors =>
        \A i \in 1..Len(call.ev) :
            call.ev[i].e = "getStringUTFChars" =>
                CountRef(call.ev, "releaseStringUTFChars", call.ev[i].out) = 1

\* C11: when coerceObject returns (null handle, toString raised, success),
\* every local reference the call created has been deleted exactly once: the
\* reference toString returned is deleted once, and the caller's handle is
\* never deleted.
C11_LocalRefsBalanced ==
    (call.op = "coerceObject" /\ call.ok) =>
        /\ \A i \in 1..Len(call.ev) :
               call.ev[i].e = "toString" =>
                   CountRef(call.ev, "deleteLocalRef", call.ev[i].out) = 1
        /\ \A i \in 1..Len(call.ev) :
               call.ev[i].e = "deleteLocalRef" =>
                   /\ call.ev[i].ref # call.arg.jstr.ref
                   /\ \E j \in 1..(i - 1) :
                          call.ev[j].e = "toString" /\ call.ev[j].out = call.ev[i].ref

\* A successful coercion of an object that is not a string.
C11_Witness ==
    /\ call.op = "coerceObject"
    /\ call.ok
    /\ call.arg.jstr.kind = "Object"
    /\ Count(call.ev, "toString") = 1
    /\ Count(call.ev, "deleteLocalRef") = 1
    /\ Count(call.ev, "textInput") = 1

\* C12: for a non-null handle, coerceObject calls toString iff the object is
\* not already a string.
C12_ToStringOnlyForNonStrings ==
    (call.op = "coerceObject" /\ call.arg.jstr.ref # 0) =>
        (Count(call.ev, "toString") + Count(call.ev, "toStringThrew") > 0
             <=> call.arg.jstr.kind # "String")

\* C13: once a type has a descriptor in the cache, a lookup of it (by
\* String_obtain, or by String_fromPgType with whatever row) reads no catalog
\* tuple and changes neither the cache nor any descriptor; and no step ever
\* changes the payload of a descriptor that exists.
C13_CatalogReadOnce ==
    [][/\ \A i \in 1..Len(heap) : Len(heap') >= i /\ heap'[i] = heap[i]
       /\ (call'.op \in Lookups /\ s_cache[call'.arg.typeId] # 0) =>
              /\ Count(call'.ev, "getValidTuple") = 0
              /\ Count(call'.ev, "getValidTupleError") = 0
              /\ Count(call'.ev, "TypeClass_allocInstance") = 0
              /\ heap' = heap
              /\ s_cache' = s_cache]_vars

\* A hit through String_fromPgType, with the row of another type, on a
\* descriptor String_obtain built from the catalog: it still holds the
\* catalog's routines.
C13_Witness ==
    /\ call.op = "String_fromPgType"
    /\ call.ok
    /\ Count(call.ev, "TypeClass_allocInstance") = 0
    /\ call.arg.pgType # PgTypeRow(call.arg.typeId)
    /\ heap[call.ret].textOutput = PgTypeRow(call.arg.typeId).typoutput
    /\ heap[call.ret].textInput = PgTypeRow(call.arg.typeId).typinput
    /\ heap[call.ret].elementType = PgTypeRow(call.arg.typeId).typelem

\* The input of a helper call is a non-null reference to zero bytes or to a
\* managed string of length zero.
ZeroLengthInput ==
    \/ call.op = "String_createJavaString"
           /\ call.arg.t.ref # 0 /\ call.arg.t.bytes = <<>>
    \/ call.op = "String_createJavaStringFromNTS"
           /\ call.arg.cp.ref # 0 /\ call.arg.cp.bytes = <<>>
    \/ call.op \in {"String_createNTS", "String_createText"}
           /\ call.arg.javaString.ref # 0 /\ call.arg.javaString.s = <<>>

\* C14: on an input of length zero a helper returns the "no value" result
\* without calling the conversion primitive and without allocating.
C14_ZeroLengthShortCircuit ==
    ZeroLengthInput =>
        /\ call.ok
        /\ call.ret.ref = 0
        /\ \A i \in 1..Len(call.ev) :
               call.ev[i].e \notin {"conv", "convError", "palloc", "pstrdup",
                                    "newStringUTF"}

\* The event allocates a transient buffer: the output routine's text, a
\* converted copy, or the copy String_createNTS makes.
AllocatesBuffer(x) ==
    \/ x.e \in {"textOutput", "pstrdup"}
    \/ x.e = "conv" /\ x.out # x.ref

\* C15: every transient buffer obtained during coerceDatum or coerceObject
\* is freed exactly once before the function is left, however it is left.
C15_TransientBuffersReleased ==
    call.op \in {"coerceDatum", "coerceObject"} =>
        \A i \in 1..Len(call.ev) :
            AllocatesBuffer(call.ev[i]) =>
                CountRef(call.ev, "pfree", call.ev[i].out) = 1

\* Nothing the descriptor refers to has been freed.
Live(d) == "freed" \notin {d.ctx, d.textOutputCtx, d.textInputCtx}

\* C16: the payload of a descriptor (the call information of its input and
\* output routines) lives in the memory context of the descriptor itself,
\* which is not the context of the call that created it; so whatever
\* releases of the calling context's memory happen between lookups, a
\* descriptor a lookup returns refers to live memory only.
C16_PayloadInDescriptorScope ==
    /\ \A i \in 1..Len(heap) :
           /\ heap[i].textOutputCtx = heap[i].ctx
           /\ heap[i].textInputCtx = heap[i].ctx
           /\ heap[i].ctx # CurrentMemoryContext
           /\ Live(heap[i])
    /\ (call.op \in Lookups /\ call.ok) => Live(heap[call.ret])

\* A cache hit on a descriptor created before the calling context's memory
\* was last released.
C16_Witness ==
    /\ call.op \in Lookups
    /\ call.ok
    /\ released
    /\ Count(call.ev, "TypeClass_allocInstance") = 0
    /\ Live(heap[call.ret])

\* The reference is to the bytes JNI_getStringUTFChars handed out.
RuntimeOwned(ev, ref) ==
    \E i \in 1..Len(ev) : ev[i].e = "getStringUTFChars" /\ ev[i].out = ref

\* The reference was allocated for the caller before event n; if it is a
\* copy, the copy was made before the bytes copied were released.
CallerOwnedBefore(ev, ref, n) ==
    \E i \in 1..(n - 1) :
        /\ AllocatesBuffer(ev[i])
        /\ ev[i].out = ref
        /\ ev[i].e = "pstrdup" =>
               \A j \in 1..i : ~(ev[j].e = "releaseStringUTFChars"
                                   /\ ev[j].ref = ev[i].ref)

\* C17: for a non-null managed string String_createNTS returns a buffer of
\* the caller's own, never the bytes JNI_getStringUTFChars handed out: the
\* converted buffer, or a copy made before those bytes are released; so the
\* pfree of coerceObject frees a buffer that is the caller's and has not
\* been freed.
C17_CreateNTSReturnsOwnedCopy ==
    /\ (call.op = "String_createNTS" /\ call.ok /\ call.arg.javaString.ref # 0) =>
           /\ call.ret.ref # 0
           /\ ~RuntimeOwned(call.ev, call.ret.ref)
           /\ CallerOwnedBefore(call.ev, call.ret.ref, Len(call.ev) + 1)
           /\ CountRef(call.ev, "pfree", call.ret.ref) = 0
    /\ call.op = "coerceObject" =>
           \A n \in 1..Len(call.ev) :
               call.ev[n].e = "pfree" =>
                   /\ ~RuntimeOwned(call.ev, call.ev[n].ref)
                   /\ CallerOwnedBefore(call.ev, call.ev[n].ref, n)
                   /\ \A j \in 1..(n - 1) :
                          ~(call.ev[j].e = "pfree" /\ call.ev[j].ref = call.ev[n].ref)

\* The conversion returned its input (the encodings coincide), and a copy
\* was made.
C17_Witness ==
    /\ call.op = "String_createNTS"
    /\ call.ok
    /\ dbEncoding = PG_UTF8
    /\ call.arg.javaString.s = <<97, 233>>
    /\ Count(call.ev, "pstrdup") = 1
    /\ call.ret.bytes = <<97, 195, 169>>
    /\ ~RuntimeOwned(call.ev, call.ret.ref)

\* The catalog tuples a call acquired and has not released.
HeldTuples(ev) == Count(ev, "getValidTuple") - Count(ev, "ReleaseSysCache")

\* C18: a lookup acquires a catalog tuple only on a cache miss, and releases
\* each tuple it acquired exactly once, after the descriptor was built from
\* it and before it returns: no tuple is held between calls.  The descriptor
\* holds the row's values, not references into the tuple.
C18_TupleReleased ==
    call.op \in Lookups =>
        /\ Count(call.ev, "getValidTuple") <= 1
        /\ Count(call.ev, "getValidTuple") = 1 =>
               /\ call.op = "String_obtain"
               /\ call.ev[1].e = "HashMap_getByOid" /\ call.ev[1].out = 0
        /\ \A i \in 1..Len(call.ev) :
               call.ev[i].e = "ReleaseSysCache" =>
                   \E j \in 1..(i - 1) :
                       /\ call.ev[j].e = "getValidTuple"
                       /\ call.ev[j].out = call.ev[i].ref
        /\ call.ok =>
               /\ HeldTuples(call.ev) = 0
               /\ \A i \in 1..Len(call.ev) :
                      call.ev[i].e = "getValidTuple" =>
                          /\ CountRef(call.ev, "ReleaseSysCache", call.ev[i].out) = 1
                          /\ \E j, k \in (i + 1)..Len(call.ev) :
                                 /\ j < k
                                 /\ call.ev[j].e = "TypeClass_allocInstance"
                                 /\ call.ev[k].e = "ReleaseSysCache"
                          /\ heap[call.ret].textOutput
                                 = PgTypeRow(call.arg.typeId).typoutput
                          /\ heap[call.ret].textInput
                                 = PgTypeRow(call.arg.typeId).typinput
                          /\ heap[call.ret].elementType
                                 = PgTypeRow(call.arg.typeId).typelem

\* A miss served from the catalog, when the cache already held another type.
C18_Witness ==
    /\ call.op = "String_obtain"
    /\ call.ok
    /\ Count(call.ev, "getValidTuple") = 1
    /\ Count(call.ev, "ReleaseSysCache") = 1
    /\ HeldTuples(call.ev) = 0
    /\ Len(heap) > 1
    /\ call.ret = Len(heap)

====
